---------------------------- MODULE Spec2Model ----------------------------
(***************************************************************************)
(* Model of the SRT receiver of src/receiver.rs: the Receiver struct and   *)
(* one iteration of the loop of <Receiver as Stream>::poll per action.     *)
(***************************************************************************)
EXTENDS Integers, Sequences, FiniteSets, TLC

(* ------------------------------ bounds --------------------------------- *)
\* data sequence numbers offered by the transport are 0..MaxSeq
MaxSeq == 2
\* number of inbound packets the transport hands over
MaxInbound == 2
\* number of times the ACK interval elapses
MaxFires == 2
\* largest reading of the socket clock
MaxClock == 1

(* ------------------------------ inputs --------------------------------- *)
Addrs == {"peer", "other"}
SockIds == {0, 9}
HandshakeInfos == {"hs"}
InTimestamps == {7}

SeqNums == 0..MaxSeq

\* the bytes the sender put under sequence number s; a retransmission
\* carries the same bytes
PayloadOf(s) == <<"bytes", s>>

\* packet::Packet::Data, as destructured in poll
DataPackets ==
    {[kind |-> "Data", seq_number |-> s, payload |-> PayloadOf(s)] :
        s \in SeqNums}

\* packet::Packet::Control carrying ControlTypes::Handshake(info)
HandshakePackets ==
    {[kind |-> "Control", timestamp |-> t, dest_sockid |-> d,
      control_type |-> [type |-> "Handshake", info |-> h]] :
        t \in InTimestamps, d \in SockIds, h \in HandshakeInfos}

\* the control types whose arm in poll is unimplemented!()
UnimplementedTypes == {"Ack", "Ack2", "DropRequest", "KeepAlive", "Nak", "Shutdown"}

UnimplementedPackets ==
    {[kind |-> "Control", timestamp |-> ts, dest_sockid |-> 0,
      control_type |-> [type |-> t]] :
        ts \in InTimestamps, t \in UnimplementedTypes}

VARIABLES
    remote,                 \* Receiver.remote
    loss_list,              \* Receiver.loss_list
    ack_history_window,     \* Receiver.ack_history_window
    packet_history_window,  \* Receiver.packet_history_window
    ack_timer,              \* TRUE when ack_timer.poll() would be Ready
    lrsn,                   \* Receiver.lrsn
    next_ack,               \* Receiver.next_ack
    clock,                  \* what sock.get_timestamp() reads
    queue,                  \* packets accepted by sock.queue_sender, in order
    status,                 \* "running" or "panicked"
    panic_site,             \* which panic ended the receiver, "none" if none
    ret,                    \* what poll last returned to its caller
    delivered,              \* payloads poll has yielded as Ready(Some(_))
    arrived,                \* the packets sock.poll() has yielded, in order
    from,                   \* the addr sock.poll() yielded with the last one
    fires                   \* number of Ready results of ack_timer.poll()

vars == <<remote, loss_list, ack_history_window, packet_history_window,
          ack_timer, lrsn, next_ack, clock, queue, status, panic_site, ret,
          delivered, arrived, from, fires>>

\* Receiver::new
Init ==
    /\ remote = "peer"
    /\ loss_list = <<>>
    /\ ack_history_window = <<>>
    /\ packet_history_window = <<>>
    /\ ack_timer = FALSE
    /\ lrsn = 0
    /\ next_ack = 0
    /\ clock = 0
    /\ queue = <<>>
    /\ status = "running"
    /\ panic_site = "none"
    /\ ret = "none"
    /\ delivered = <<>>
    /\ arrived = <<>>
    /\ from = "nobody"
    /\ fires = 0

(* --------------------------- environment ------------------------------- *)
\* the socket clock read by get_timestamp moves forward
AdvanceClock ==
    /\ status = "running"
    /\ clock < MaxClock
    /\ clock' = clock + 1
    /\ UNCHANGED <<remote, loss_list, ack_history_window,
                   packet_history_window, ack_timer, lrsn, next_ack, queue,
                   status, panic_site, ret, delivered, arrived, from, fires>>

\* the one second interval of ack_timer elapses
AckTimerElapse ==
    /\ status = "running"
    /\ ~ack_timer
    /\ fires < MaxFires
    /\ ack_timer' = TRUE
    /\ UNCHANGED <<remote, loss_list, ack_history_window,
                   packet_history_window, lrsn, next_ack, clock, queue,
                   status, panic_site, ret, delivered, arrived, from, fires>>

(* ------------------------- the timer section --------------------------- *)
\* the ACK numbered after the increment instead of before it
AckPacketNumberedAhead ==
    [kind |-> "Control", timestamp |-> clock, dest_sockid |-> 0,
     control_type |-> [type |-> "Ack", seq_num |-> next_ack + 1,
                       info |-> [lrsn |-> lrsn]]]

\* the ACK built when the timer is ready
AckPacket ==
    [kind |-> "Control", timestamp |-> clock, dest_sockid |-> 0,
     control_type |-> [type |-> "Ack", seq_num |-> next_ack,
                       info |-> [lrsn |-> lrsn]]]

\* the increment of next_ack left out
NextAckAfterTimerStuck == next_ack

\* self.next_ack += 1, only when the timer is ready
NextAckAfterTimer == IF ack_timer THEN next_ack + 1 ELSE next_ack

\* the ACK sent on every iteration, timer or not
QueueAfterTimerAlways == Append(queue, <<AckPacket, remote>>)

\* the ACK never handed to the transport
QueueAfterTimerDropped == queue

\* queue_sender.send((ack, self.remote)) that succeeded, only when ready
QueueAfterTimer ==
    IF ack_timer THEN Append(queue, <<AckPacket, remote>>) ELSE queue

FiresAfterTimer == IF ack_timer THEN fires + 1 ELSE fires

\* the timer section ran to its end (no timer, or its send was accepted)
TimerSection ==
    /\ status = "running"
    /\ ack_timer' = FALSE
    /\ next_ack' = NextAckAfterTimer
    /\ fires' = FiresAfterTimer

(* ------------------------------ actions -------------------------------- *)
\* ack_timer.poll()? returns the timer's error to the caller
PollTimerErr ==
    /\ status = "running"
    /\ ret' = "Err"
    /\ UNCHANGED <<remote, loss_list, ack_history_window,
                   packet_history_window, ack_timer, lrsn, next_ack, clock,
                   queue, status, panic_site, delivered, arrived, from, fires>>

\* the timer is ready and the send of the ACK fails: unwrap() panics
PollAckSendFail ==
    /\ status = "running"
    /\ ack_timer
    /\ ack_timer' = FALSE
    /\ next_ack' = next_ack + 1
    /\ fires' = fires + 1
    /\ status' = "panicked"
    /\ panic_site' = "ack_send_unwrap"
    /\ UNCHANGED <<remote, loss_list, ack_history_window,
                   packet_history_window, lrsn, clock, queue, ret, delivered,
                   arrived, from>>

\* try_ready!(self.sock.poll()) sees NotReady: poll returns Ok(NotReady)
PollSockNotReady ==
    /\ TimerSection
    /\ queue' = QueueAfterTimer
    /\ ret' = "NotReady"
    /\ UNCHANGED <<remote, loss_list, ack_history_window,
                   packet_history_window, lrsn, clock, status, panic_site,
                   delivered, arrived, from>>

\* try_ready!(self.sock.poll()) sees Err: poll returns the error
PollSockErr ==
    /\ TimerSection
    /\ queue' = QueueAfterTimer
    /\ ret' = "Err"
    /\ UNCHANGED <<remote, loss_list, ack_history_window,
                   packet_history_window, lrsn, clock, status, panic_site,
                   delivered, arrived, from>>

\* self.sock.poll() is Ready(None), the transport closed: panic!()
PollSockClosed ==
    /\ TimerSection
    /\ queue' = QueueAfterTimer
    /\ status' = "panicked"
    /\ panic_site' = "closed"
    /\ UNCHANGED <<remote, loss_list, ack_history_window,
                   packet_history_window, lrsn, clock, ret, delivered,
                   arrived, from>>

\* a reply rebuilt with the dest_sockid the ACK uses, not the received one
HandshakeReplyRebuilt(pack) == [pack EXCEPT !.dest_sockid = 0]

\* what the Handshake arm hands to queue_sender.send: pack.clone()
HandshakeReply(pack) == pack

\* the reply sent to where the packet came from
HandshakeDestSource(addr) == addr

\* where the Handshake arm sends: self.remote
HandshakeDest(addr) == remote

\* a Handshake arm that also restarts the receive state
PollHandshakeResetsLrsn ==
    \E pack \in HandshakePackets, addr \in Addrs :
        /\ TimerSection
        /\ Len(arrived) < MaxInbound
        /\ arrived' = Append(arrived, pack)
        /\ from' = addr
        /\ queue' = Append(QueueAfterTimer,
                           <<HandshakeReply(pack), HandshakeDest(addr)>>)
        /\ lrsn' = 0
        /\ UNCHANGED <<remote, loss_list, ack_history_window,
                       packet_history_window, clock, status, panic_site,
                       ret, delivered>>

\* Packet::Control with ControlTypes::Handshake: send it back
PollHandshake ==
    \E pack \in HandshakePackets, addr \in Addrs :
        /\ TimerSection
        /\ Len(arrived) < MaxInbound
        /\ arrived' = Append(arrived, pack)
        /\ from' = addr
        /\ queue' = Append(QueueAfterTimer,
                           <<HandshakeReply(pack), HandshakeDest(addr)>>)
        /\ UNCHANGED <<remote, loss_list, ack_history_window,
                       packet_history_window, lrsn, clock, status,
                       panic_site, ret, delivered>>

\* the Handshake arm when the send fails: unwrap() panics
PollHandshakeSendFail ==
    \E pack \in HandshakePackets, addr \in Addrs :
        /\ TimerSection
        /\ Len(arrived) < MaxInbound
        /\ arrived' = Append(arrived, pack)
        /\ from' = addr
        /\ queue' = QueueAfterTimer
        /\ status' = "panicked"
        /\ panic_site' = "handshake_send_unwrap"
        /\ UNCHANGED <<remote, loss_list, ack_history_window,
                       packet_history_window, lrsn, clock, ret, delivered>>

\* Ack, Ack2, DropRequest, KeepAlive, Nak, Shutdown: unimplemented!()
PollUnimplemented ==
    \E pack \in UnimplementedPackets, addr \in Addrs :
        /\ TimerSection
        /\ Len(arrived) < MaxInbound
        /\ arrived' = Append(arrived, pack)
        /\ from' = addr
        /\ queue' = QueueAfterTimer
        /\ status' = "panicked"
        /\ panic_site' = "unimplemented"
        /\ UNCHANGED <<remote, loss_list, ack_history_window,
                       packet_history_window, lrsn, clock, ret, delivered>>

\* lrsn kept as the larger of the two by plain integer comparison
DataLrsnRawMax(seq_number) == IF seq_number > lrsn THEN seq_number ELSE lrsn

\* the value the Data arm stores into self.lrsn
DataLrsn(seq_number) == seq_number

\* a Data arm that also pushes the arrived number onto the loss list
PollDataPushingLoss ==
    \E pack \in DataPackets, addr \in Addrs :
        /\ TimerSection
        /\ Len(arrived) < MaxInbound
        /\ arrived' = Append(arrived, pack)
        /\ from' = addr
        /\ queue' = QueueAfterTimer
        /\ lrsn' = DataLrsn(pack.seq_number)
        /\ loss_list' = Append(loss_list,
                               [seq_num |-> pack.seq_number,
                                feedback_time |-> clock, k |-> 0])
        /\ UNCHANGED <<remote, ack_history_window, packet_history_window,
                       clock, status, panic_site, ret, delivered>>

\* Packet::Data: self.lrsn = seq_number, and the loop goes round
PollData ==
    \E pack \in DataPackets, addr \in Addrs :
        /\ TimerSection
        /\ Len(arrived) < MaxInbound
        /\ arrived' = Append(arrived, pack)
        /\ from' = addr
        /\ queue' = QueueAfterTimer
        /\ lrsn' = DataLrsn(pack.seq_number)
        /\ UNCHANGED <<remote, loss_list, ack_history_window,
                       packet_history_window, clock, status, panic_site,
                       ret, delivered>>

Next ==
    \/ AdvanceClock
    \/ AckTimerElapse
    \/ PollTimerErr
    \/ PollAckSendFail
    \/ PollSockNotReady
    \/ PollSockErr
    \/ PollSockClosed
    \/ PollHandshake
    \/ PollHandshakeSendFail
    \/ PollUnimplemented
    \/ PollData

Spec == Init /\ [][Next]_vars

(* --------------------------- observations ------------------------------ *)
IsAck(e) == e[1].kind = "Control" /\ e[1].control_type.type = "Ack"
IsData(pack) == pack.kind = "Data"
IsType(pack, t) == pack.kind = "Control" /\ pack.control_type.type = t

\* the ACKs among the packets the transport accepted, in order
SentAcks == SelectSeq(queue, IsAck)

\* the data packets consumed so far, in arrival order
ArrivedData == SelectSeq(arrived, IsData)
ArrivedSeqs == [i \in 1..Len(ArrivedData) |-> ArrivedData[i].seq_number]
ArrivedPayloads == [i \in 1..Len(ArrivedData) |-> ArrivedData[i].payload]

\* a step of the loop that took a packet from the transport
Consumed == Len(arrived') = Len(arrived) + 1
LastArrived == arrived'[Len(arrived')]

SetMax(S) == CHOOSE m \in S : \A x \in S : x <= m

\* high-water mark and missing set after the first n data arrivals, as the
\* claims describe them: a gap records the skipped numbers, a late arrival
\* removes its number
RECURSIVE GapFold(_)
GapFold(n) ==
    IF n = 0 THEN [hw |-> 0, loss |-> {}]
    ELSE LET prev == GapFold(n - 1)
             s == ArrivedSeqs[n]
         IN  IF s > prev.hw
             THEN [hw |-> s, loss |-> prev.loss \cup ((prev.hw + 1)..(s - 1))]
             ELSE [hw |-> prev.hw, loss |-> prev.loss \ {s}]

(* ------------------------------- claims -------------------------------- *)
\* C1: a loop step that consumes a Handshake received from the remote, and
\* whose send the transport accepts, enqueues exactly one packet besides the
\* timer's ACK, equal to the received packet and addressed to the remote.
HandshakeReflected ==
    [][\A pack \in HandshakePackets :
          (/\ Consumed
           /\ LastArrived = pack
           /\ from' = remote
           /\ panic_site' # "handshake_send_unwrap")
          => LET new == SubSeq(queue', Len(queue) + 1, Len(queue'))
                 other == SelectSeq(new, LAMBDA e : ~IsAck(e))
             IN  /\ SubSeq(queue', 1, Len(queue)) = queue
                 /\ other = << <<pack, remote>> >>]_vars

HandshakeReflectedWitness ==
    /\ status = "running"
    /\ arrived # <<>>
    /\ queue # <<>>
    /\ from = remote
    /\ IsType(arrived[Len(arrived)], "Handshake")
    /\ arrived[Len(arrived)].dest_sockid = 9
    /\ queue[Len(queue)] = <<arrived[Len(arrived)], remote>>

\* C2: the output stream holds the payload of every consumed data packet,
\* once each, in arrival order.
DeliveredInArrivalOrder == delivered = ArrivedPayloads

\* C3: once a data packet has arrived, lrsn is the largest sequence number
\* received so far.
LrsnIsHighWaterMark ==
    ArrivedSeqs # <<>> =>
        lrsn = SetMax({ArrivedSeqs[i] : i \in 1..Len(ArrivedSeqs)})

\* C4: the loss list holds exactly the sequence numbers skipped by a gap
\* that have not arrived since.
LossListIsGaps ==
    {loss_list[i].seq_num : i \in 1..Len(loss_list)}
        = GapFold(Len(ArrivedSeqs)).loss

\* C5: every fire of the ACK timer whose send the transport accepts puts
\* one ACK in the queue and nothing else does; the ACKs carry strictly
\* increasing ACK numbers and non-decreasing timestamps; with no inbound
\* traffic the queue holds the ACKs only.
AckPeriodicity ==
    /\ Len(SentAcks) =
          fires - (IF panic_site = "ack_send_unwrap" THEN 1 ELSE 0)
    /\ \A i, j \in 1..Len(SentAcks) :
          i < j =>
            /\ SentAcks[i][1].control_type.seq_num
                  < SentAcks[j][1].control_type.seq_num
            /\ SentAcks[i][1].timestamp <= SentAcks[j][1].timestamp
    /\ arrived = <<>> => queue = SentAcks

AckPeriodicityWitness ==
    /\ arrived = <<>>
    /\ status = "running"
    /\ fires >= 2
    /\ Len(queue) = fires
    /\ queue[1][1].timestamp < queue[2][1].timestamp

\* C6: the ACK emitted last is found, with its send time, in the ACK
\* history window.
AckRecordedInHistory ==
    SentAcks # <<>> =>
        LET a == SentAcks[Len(SentAcks)][1]
        IN  \E i \in 1..Len(ack_history_window) :
                ack_history_window[i] = <<a.control_type.seq_num, a.timestamp>>

\* C7: consuming any packet other than Shutdown leaves the receiver
\* running; the packet itself never aborts it (a refused send of the
\* reflected Handshake is C10's case and is set aside here).
OnlyShutdownEnds ==
    [][(Consumed /\ ~IsType(LastArrived, "Shutdown"))
          => (status' = "running"
              \/ panic_site' = "handshake_send_unwrap")]_vars

\* C8: when the transport reports closure, poll returns end-of-stream to
\* its caller and the process is not aborted.
ClosureSurfaced ==
    [][PollSockClosed => (status' # "panicked" /\ ret' = "EndOfStream")]_vars

\* C9: consuming a Shutdown stops the loop by returning end-of-stream.
ShutdownSurfaced ==
    [][(Consumed /\ IsType(LastArrived, "Shutdown"))
          => (status' # "panicked" /\ ret' = "EndOfStream")]_vars

\* C10: no failed send of an ACK or of a reflected Handshake ends the
\* receiver.
SendFailureNonFatal ==
    panic_site \notin {"ack_send_unwrap", "handshake_send_unwrap"}

\* C11: a loop step that consumes an inbound packet while the ACK timer is
\* ready first enqueues the timer's ACK (number next_ack, to the remote),
\* ahead of anything the packet causes, and leaves the timer not ready; so
\* every packet of a burst is preceded by the ACK of a timer that fired.
TimerBeforePacket ==
    [][(Consumed /\ ack_timer)
          => /\ ~ack_timer'
             /\ Len(queue') > Len(queue)
             /\ SubSeq(queue', 1, Len(queue)) = queue
             /\ IsAck(queue'[Len(queue) + 1])
             /\ queue'[Len(queue) + 1][1].control_type.seq_num = next_ack
             /\ queue'[Len(queue) + 1][2] = remote]_vars

\* a first iteration, with no return of poll in between, that consumed a
\* data packet with the timer ready: the ACK still carries the old lrsn
TimerBeforePacketWitness ==
    /\ status = "running"
    /\ ret = "none"
    /\ fires = 1
    /\ Len(arrived) = 1
    /\ IsData(arrived[1])
    /\ lrsn # 0
    /\ Len(queue) = 1
    /\ IsAck(queue[1])
    /\ queue[1][1].control_type.info.lrsn = 0

\* C12: consuming an Ack2 ends without error: the receiver keeps running
\* (an Ack2 for an ACK that was never sent changes nothing).
Ack2Handled ==
    [][(Consumed /\ IsType(LastArrived, "Ack2"))
          => /\ status' = "running"
             /\ UNCHANGED <<lrsn, loss_list, ack_history_window,
                            packet_history_window>>]_vars

\* the number of NAKs handed to the transport that list sequence number s
NaksListing(s) ==
    Cardinality({i \in 1..Len(queue) :
                    /\ IsType(queue[i][1], "Nak")
                    /\ s \in queue[i][1].control_type.info})

\* C13: every sequence number still missing has a loss list entry whose
\* retry count k is the number of NAKs that have listed it (so k grows by
\* one with each NAK that re-includes it) and whose feedback time is not
\* ahead of the clock.
NakFeedbackCounted ==
    \A s \in GapFold(Len(ArrivedSeqs)).loss :
        \E i \in 1..Len(loss_list) :
            /\ loss_list[i].seq_num = s
            /\ loss_list[i].k = NaksListing(s)
            /\ loss_list[i].feedback_time <= clock

\* C15: a loop step that consumes a Handshake changes neither lrsn, nor the
\* loss list, nor the two history windows, and next_ack only by the timer
\* fire of the same iteration.
HandshakeTouchesNothing ==
    [][(Consumed /\ IsType(LastArrived, "Handshake"))
          => /\ UNCHANGED <<lrsn, loss_list, ack_history_window,
                            packet_history_window>>
             /\ next_ack' - next_ack = fires' - fires]_vars

HandshakeTouchesNothingWitness ==
    /\ status = "running"
    /\ Len(arrived) = 2
    /\ IsData(arrived[1])
    /\ IsType(arrived[2], "Handshake")
    /\ lrsn = arrived[1].seq_number
    /\ lrsn # 0
    /\ next_ack = 0

\* C16: a timer fire raises next_ack by exactly one and nothing else
\* changes it; an ACK that is enqueued carries the next_ack and the lrsn
\* held just before the fire; the k-th ACK enqueued, counting from 0,
\* carries ACK number k.
AckNumbering ==
    [][/\ next_ack' - next_ack = fires' - fires
       /\ fires' - fires \in {0, 1}
       /\ Len(SentAcks') > Len(SentAcks) =>
            /\ fires' = fires + 1
            /\ SentAcks'[Len(SentAcks')][1].control_type.seq_num = next_ack
            /\ SentAcks'[Len(SentAcks')][1].control_type.info.lrsn = lrsn
       /\ \A k \in 1..Len(SentAcks') :
            SentAcks'[k][1].control_type.seq_num = k - 1]_vars

\* two ACKs, the second built in the iteration that consumed a data packet
\* or after it, carrying a moved lrsn
AckNumberingWitness ==
    /\ status = "running"
    /\ Len(SentAcks) = 2
    /\ next_ack = 2
    /\ arrived # <<>>
    /\ SentAcks[1][1].control_type.info.lrsn = 0
    /\ SentAcks[2][1].control_type.info.lrsn # 0

\* increment of a sequence number, wrapping from the largest one to 0
Increment(a) == (a + 1) % (MaxSeq + 1)

\* C17: a loop step that consumes a data packet whose sequence number is
\* Increment(lrsn), the wrap from MaxSeq to 0 included, sets lrsn to that
\* number and leaves the loss list as it was.
ExpectedNextAdvances ==
    [][(/\ Consumed
        /\ IsData(LastArrived)
        /\ LastArrived.seq_number = Increment(lrsn))
          => /\ lrsn' = LastArrived.seq_number
             /\ loss_list' = loss_list]_vars

\* the wrap: lrsn stood at the largest sequence number and 0 arrived next
ExpectedNextAdvancesWitness ==
    /\ status = "running"
    /\ Len(arrived) = 2
    /\ IsData(arrived[1])
    /\ IsData(arrived[2])
    /\ arrived[1].seq_number = MaxSeq
    /\ arrived[2].seq_number = 0
    /\ lrsn = 0
    /\ loss_list = <<>>

AllSentToRemote ==
    /\ remote = "peer"
    /\ \A i \in 1..Len(queue) : queue[i][2] = remote

\* a Handshake that came from another address was answered to the remote,
\* and an ACK went there too
AllSentToRemoteWitness ==
    /\ status = "running"
    /\ arrived # <<>>
    /\ IsType(arrived[Len(arrived)], "Handshake")
    /\ from = "other"
    /\ Len(queue) >= 2
    /\ queue[Len(queue)] = <<arrived[Len(arrived)], "peer">>
    /\ \E i \in 1..Len(queue) : IsAck(queue[i])

\* C20: a loop step enqueues at most one ACK, and only when the timer
\* fired in it, and one other packet exactly when it consumed a Handshake
\* whose send was accepted; so consuming a data packet enqueues nothing
\* but the ACK of a timer that fired.
OnlyTimerAndHandshakeEmit ==
    [][LET new == SubSeq(queue', Len(queue) + 1, Len(queue'))
           acks == SelectSeq(new, IsAck)
           other == SelectSeq(new, LAMBDA e : ~IsAck(e))
       IN  /\ SubSeq(queue', 1, Len(queue)) = queue
           /\ Len(acks) <= fires' - fires
           /\ fires' - fires <= 1
           /\ Len(other) =
                 IF /\ Consumed
                    /\ IsType(LastArrived, "Handshake")
                    /\ panic_site' # "handshake_send_unwrap"
                 THEN 1 ELSE 0
           /\ (Consumed /\ IsData(LastArrived)) => other = <<>>]_vars

\* data packets were consumed, no timer fired, and nothing was sent
OnlyTimerAndHandshakeEmitWitness ==
    /\ status = "running"
    /\ Len(arrived) = 2
    /\ IsData(arrived[1])
    /\ IsData(arrived[2])
    /\ fires = 0
    /\ queue = <<>>

=============================================================================
